---- MODULE Spec2Model ----
(***************************************************************************)
(* Model of backend/server.py: the POST /api/analyze pipeline.            *)
(*                                                                         *)
(* Each request is one asyncio task.  Code between two awaits runs         *)
(* atomically on the event loop, so there is one action per stretch of     *)
(* analyze_code between suspension points.  The suspension points are the  *)
(* entry of `async with create_semgrep_server()` (__aenter__), the         *)
(* `await Runner.run(...)` and the exit of the `async with` (__aexit__).   *)
(*                                                                         *)
(* Text is a sequence of tokens.  A CVSS score is kept in tenths           *)
(* (98 stands for 9.8).                                                    *)
(***************************************************************************)
EXTENDS Integers, Sequences, FiniteSets, TLC

\* Number of requests that may be in flight together.
NumReq == 2

Requests == 1..NumReq

\* What str.strip() removes.
Whitespace == {" ", "\t", "\n", "\r"}

\* Request codes, as character sequences: empty, whitespace only, and with
\* text (bare, and padded with whitespace on both sides).
Codes == {<<>>, <<" ">>, <<"\t", "\n">>, <<"a">>, <<" ", "a", "\n">>}

VARIABLES
    env_key,       \* os.getenv("GEMINI_API_KEY") is set
    pc,            \* where each request's task stands
    code,          \* request.code
    handle,        \* the semgrep server bound by `async with ... as semgrep`, 0 = none
    live,          \* tool-server handles connected and not yet released
    nextHandle,    \* handles created so far
    acquireCalls,  \* __aenter__ calls per request
    backendCalls,  \* Runner.run calls per request
    releaseCalls,  \* __aexit__ calls per request
    reply,         \* name of the reply Runner.run returned, "" = none
    pending,       \* what leaves the `async with` block: a report, an exception, a cancellation
    logs,          \* logger.exception records per request
    response,      \* what the client receives
    steps          \* pipeline steps executed so far, in order

vars == <<env_key, pc, code, handle, live, nextHandle, acquireCalls,
          backendCalls, releaseCalls, reply, pending, logs, response, steps>>

----
\* Exceptions

NoException == [type |-> "None", status |-> 0, msg |-> ""]

HTTPException(status_code, detail) ==
    [type |-> "HTTPException", status |-> status_code, msg |-> detail]

ToolAcquisitionError == [type |-> "ToolAcquisitionError", status |-> 0, msg |-> "semgrep server failed to start"]
BackendInvocationError == [type |-> "BackendInvocationError", status |-> 0, msg |-> "backend call failed"]
OutputValidationError == [type |-> "OutputValidationError", status |-> 0, msg |-> "reply does not match SecurityReport"]

\* str(e): starlette renders an HTTPException as "<status>: <detail>".
str(e) ==
    IF e.type = "HTTPException"
    THEN <<ToString(e.status), ": ", e.msg>>
    ELSE <<e.msg>>

----
\* Request validation

RECURSIVE lstrip(_)
lstrip(s) ==
    IF s # <<>> /\ Head(s) \in Whitespace THEN lstrip(Tail(s)) ELSE s

RECURSIVE rstrip(_)
rstrip(s) ==
    IF s # <<>> /\ s[Len(s)] \in Whitespace
    THEN rstrip(SubSeq(s, 1, Len(s) - 1))
    ELSE s

strip(s) == rstrip(lstrip(s))

\* validate_request testing request.code without strip().
validate_request_nostrip(c) ==
    IF c = <<>>
    THEN HTTPException(400, "No code provided for analysis")
    ELSE NoException

\* The exception validate_request raises, NoException when it returns.
validate_request(c) ==
    IF strip(c) = <<>>
    THEN HTTPException(400, "No code provided for analysis")
    ELSE NoException

\* check_api_keys that never raises.
check_api_keys_skipped(key) == NoException

\* The exception check_api_keys raises, NoException when it returns.
check_api_keys(key) ==
    IF ~key
    THEN HTTPException(500, "Gemini API key not configured")
    ELSE NoException

----
\* Output schema (SecurityIssue, SecurityReport) and the backend's replies

IssueFields == {"title", "description", "code", "fix", "cvss_score", "severity"}
ReportFields == {"summary", "issues"}

\* SecurityIssue with `fix` given a default, hence optional.
SecurityIssueValid_fix_optional(i) == (IssueFields \ {"fix"}) \subseteq DOMAIN i

\* pydantic accepts a reply issue when every declared field is present: no
\* field has a default, and neither cvss_score nor severity carries a constraint.
SecurityIssueValid(i) == IssueFields \subseteq DOMAIN i

\* The model object built from an accepted issue: the declared fields only.
SecurityIssue(i) == [f \in IssueFields \cap DOMAIN i |-> i[f]]

SecurityReportValid(raw) ==
    /\ ReportFields \subseteq DOMAIN raw
    /\ \A n \in 1..Len(raw.issues) : SecurityIssueValid(raw.issues[n])

SecurityReport(raw) ==
    [summary |-> raw.summary,
     issues |-> [n \in 1..Len(raw.issues) |-> SecurityIssue(raw.issues[n])]]

NoReport == [summary |-> <<>>, issues |-> <<>>]

RceIssue ==
    [title |-> "Arbitrary code execution", description |-> "eval of user input",
     code |-> "eval(input())", fix |-> "use ast.literal_eval",
     cvss_score |-> 98, severity |-> "critical"]

WeakHashIssue ==
    [title |-> "Weak hash", description |-> "md5 used for passwords",
     code |-> "md5(pw)", fix |-> "use bcrypt",
     cvss_score |-> 53, severity |-> "medium"]

\* Replies the reasoning backend may produce, by name.
ReplyIds == {"one_issue", "no_issues", "two_issues", "no_fix", "score_high",
             "bad_severity"}

BackendReply(k) ==
    CASE k = "one_issue" -> [summary |-> <<"One issue found.">>, issues |-> <<RceIssue>>]
      [] k = "no_issues" -> [summary |-> <<"No issues found.">>, issues |-> <<>>]
      [] k = "two_issues" ->
            [summary |-> <<"Two issues found.">>, issues |-> <<WeakHashIssue, RceIssue>>]
      [] k = "no_fix" ->
            [summary |-> <<"One issue found.">>,
             issues |-> <<[title |-> "Arbitrary code execution",
                           description |-> "eval of user input",
                           code |-> "eval(input())",
                           cvss_score |-> 98, severity |-> "critical"]>>]
      [] k = "score_high" ->
            [summary |-> <<"One issue found.">>,
             issues |-> <<[RceIssue EXCEPT !.cvss_score = 110]>>]
      [] k = "bad_severity" ->
            [summary |-> <<"One issue found.">>,
             issues |-> <<[RceIssue EXCEPT !.severity = "catastrophic"]>>]

----
\* Summary enrichment and the boundary

\* enhance_summary appends a qualifier derived from the code length.
enhance_summary(code_length, summary) ==
    summary \o <<"Analyzed characters: ", ToString(code_length)>>

\* format_analysis_response returning the issues in reverse order.
format_analysis_response_reversed(c, report) ==
    [summary |-> enhance_summary(Len(c), report.summary),
     issues |-> [n \in 1..Len(report.issues) |->
                    report.issues[Len(report.issues) + 1 - n]]]

format_analysis_response(c, report) ==
    [summary |-> enhance_summary(Len(c), report.summary), issues |-> report.issues]

NoResponse == [status |-> 0, detail |-> <<>>, report |-> NoReport]

\* A returned report is sent as 200.
SuccessResponse(report) == [status |-> 200, detail |-> <<>>, report |-> report]

\* Without the except clause the framework answers an unhandled exception itself.
ExceptionResponse_unhandled(e) ==
    [status |-> 500, detail |-> <<"Internal Server Error">>, report |-> NoReport]

\* The `except Exception as e` clause of analyze_code: what it raises for e.
ExceptionResponse(e) ==
    [status |-> 500, detail |-> <<"Analysis failed: ">> \o str(e), report |-> NoReport]

LogRecord(e) == [msg |-> "Analysis failed", exc_info |-> e]

----
\* What leaves the `async with` block of run_security_analysis

NoPending == [kind |-> "none", report |-> NoReport, exc |-> NoException, at |-> ""]
Returning(report) == [kind |-> "return", report |-> report, exc |-> NoException, at |-> ""]
Raising(e) == [kind |-> "raise", report |-> NoReport, exc |-> e, at |-> ""]
\* CancelledError thrown into the task at the await named by `at`.
Cancelling(at) == [kind |-> "cancel", report |-> NoReport, exc |-> NoException, at |-> at]

\* Runner.run has produced `reply`: final_output_as(SecurityReport) either
\* yields the report or the reply fails the schema.
ValidateOutput(raw) ==
    IF SecurityReportValid(raw)
    THEN Returning(SecurityReport(raw))
    ELSE Raising(OutputValidationError)

----
Init ==
    /\ env_key \in BOOLEAN
    /\ pc = [r \in Requests |-> "idle"]
    /\ code = [r \in Requests |-> <<>>]
    /\ handle = [r \in Requests |-> 0]
    /\ live = {}
    /\ nextHandle = 0
    /\ acquireCalls = [r \in Requests |-> 0]
    /\ backendCalls = [r \in Requests |-> 0]
    /\ releaseCalls = [r \in Requests |-> 0]
    /\ reply = [r \in Requests |-> ""]
    /\ pending = [r \in Requests |-> NoPending]
    /\ logs = [r \in Requests |-> <<>>]
    /\ response = [r \in Requests |-> NoResponse]
    /\ steps = [r \in Requests |-> <<>>]

\* The except clause without its logger.exception call.
Except_nolog(r, e) ==
    /\ logs' = logs
    /\ response' = [response EXCEPT ![r] = ExceptionResponse(e)]
    /\ pc' = [pc EXCEPT ![r] = "done"]

\* The except clause of analyze_code for exception e: log, then raise the 500.
Except(r, e) ==
    /\ logs' = [logs EXCEPT ![r] = Append(@, LogRecord(e))]
    /\ response' = [response EXCEPT ![r] = ExceptionResponse(e)]
    /\ pc' = [pc EXCEPT ![r] = "done"]

\* analyze_code calling validate_request before check_api_keys.
analyze_code_validate_first(r) ==
    /\ pc[r] = "idle"
    /\ \E c \in Codes :
        /\ code' = [code EXCEPT ![r] = c]
        /\ IF validate_request(c) # NoException
           THEN /\ Except(r, validate_request(c))
                /\ steps' = [steps EXCEPT ![r] = <<2>>]
                /\ UNCHANGED acquireCalls
           ELSE IF check_api_keys(env_key) # NoException
           THEN /\ Except(r, check_api_keys(env_key))
                /\ steps' = [steps EXCEPT ![r] = <<2, 1>>]
                /\ UNCHANGED acquireCalls
           ELSE /\ acquireCalls' = [acquireCalls EXCEPT ![r] = @ + 1]
                /\ steps' = [steps EXCEPT ![r] = <<2, 1, 3>>]
                /\ pc' = [pc EXCEPT ![r] = "acquiring"]
                /\ UNCHANGED <<logs, response>>
    /\ UNCHANGED <<env_key, handle, live, nextHandle, backendCalls, releaseCalls,
                   reply, pending>>

\* POST /api/analyze arrives with body {code: c}: check_api_keys,
\* validate_request, then run_security_analysis up to the await in __aenter__.
analyze_code(r) ==
    /\ pc[r] = "idle"
    /\ \E c \in Codes :
        /\ code' = [code EXCEPT ![r] = c]
        /\ IF check_api_keys(env_key) # NoException
           THEN /\ Except(r, check_api_keys(env_key))
                /\ steps' = [steps EXCEPT ![r] = <<1>>]
                /\ UNCHANGED acquireCalls
           ELSE IF validate_request(c) # NoException
           THEN /\ Except(r, validate_request(c))
                /\ steps' = [steps EXCEPT ![r] = <<1, 2>>]
                /\ UNCHANGED acquireCalls
           ELSE /\ acquireCalls' = [acquireCalls EXCEPT ![r] = @ + 1]
                /\ steps' = [steps EXCEPT ![r] = <<1, 2, 3>>]
                /\ pc' = [pc EXCEPT ![r] = "acquiring"]
                /\ UNCHANGED <<logs, response>>
    /\ UNCHANGED <<env_key, handle, live, nextHandle, backendCalls, releaseCalls,
                   reply, pending>>

\* One process-wide semgrep server handed to every request.
aenter_return_shared(r) ==
    /\ pc[r] = "acquiring"
    /\ nextHandle' = 1
    /\ handle' = [handle EXCEPT ![r] = 1]
    /\ live' = live \cup {1}
    /\ backendCalls' = [backendCalls EXCEPT ![r] = @ + 1]
    /\ steps' = [steps EXCEPT ![r] = @ \o <<4, 5>>]
    /\ pc' = [pc EXCEPT ![r] = "invoking"]
    /\ UNCHANGED <<env_key, code, acquireCalls, releaseCalls, reply, pending, logs,
                   response>>

\* create_semgrep_server() used without `async with`: the server object is
\* handed to the agent but never connected.
aenter_return_unconnected(r) ==
    /\ pc[r] = "acquiring"
    /\ nextHandle' = nextHandle + 1
    /\ handle' = [handle EXCEPT ![r] = nextHandle + 1]
    /\ backendCalls' = [backendCalls EXCEPT ![r] = @ + 1]
    /\ steps' = [steps EXCEPT ![r] = @ \o <<4, 5>>]
    /\ pc' = [pc EXCEPT ![r] = "invoking"]
    /\ UNCHANGED <<env_key, code, live, acquireCalls, releaseCalls, reply, pending, logs,
                   response>>

\* __aenter__ returns a connected server: bind it, create_security_agent,
\* call Runner.run and suspend in it.
aenter_return(r) ==
    /\ pc[r] = "acquiring"
    /\ nextHandle' = nextHandle + 1
    /\ handle' = [handle EXCEPT ![r] = nextHandle + 1]
    /\ live' = live \cup {nextHandle + 1}
    /\ backendCalls' = [backendCalls EXCEPT ![r] = @ + 1]
    /\ steps' = [steps EXCEPT ![r] = @ \o <<4, 5>>]
    /\ pc' = [pc EXCEPT ![r] = "invoking"]
    /\ UNCHANGED <<env_key, code, acquireCalls, releaseCalls, reply, pending, logs,
                   response>>

\* A failed connection swallowed: the block runs without a server.
aenter_raise_swallowed(r) ==
    /\ pc[r] = "acquiring"
    /\ backendCalls' = [backendCalls EXCEPT ![r] = @ + 1]
    /\ steps' = [steps EXCEPT ![r] = @ \o <<4, 5>>]
    /\ pc' = [pc EXCEPT ![r] = "invoking"]
    /\ UNCHANGED <<env_key, code, handle, live, nextHandle, acquireCalls,
                   releaseCalls, reply, pending, logs, response>>

\* __aenter__ raises: the block is not entered and __aexit__ is not called.
aenter_raise(r) ==
    /\ pc[r] = "acquiring"
    /\ Except(r, ToolAcquisitionError)
    /\ UNCHANGED <<env_key, code, handle, live, nextHandle, acquireCalls,
                   backendCalls, releaseCalls, reply, pending, steps>>

\* The task is cancelled inside __aenter__: CancelledError is not an
\* Exception, so the except clause does not run.
aenter_cancel(r) ==
    /\ pc[r] = "acquiring"
    /\ pending' = [pending EXCEPT ![r] = Cancelling("aenter")]
    /\ pc' = [pc EXCEPT ![r] = "cancelled"]
    /\ UNCHANGED <<env_key, code, handle, live, nextHandle, acquireCalls,
                   backendCalls, releaseCalls, reply, logs, response, steps>>

\* Leaving the `async with` block with outcome p: __aexit__ is called.
LeaveBlock(r, p, done) ==
    /\ pending' = [pending EXCEPT ![r] = p]
    /\ releaseCalls' = [releaseCalls EXCEPT ![r] = @ + 1]
    /\ steps' = [steps EXCEPT ![r] = @ \o done \o <<8>>]
    /\ pc' = [pc EXCEPT ![r] = "releasing"]

\* format_analysis_response called inside the `async with` block.
Runner_run_return_enrich_inside(r) ==
    /\ pc[r] = "invoking"
    /\ \E k \in ReplyIds :
        /\ reply' = [reply EXCEPT ![r] = k]
        /\ LeaveBlock(r, ValidateOutput(BackendReply(k)),
                      IF SecurityReportValid(BackendReply(k)) THEN <<6, 7>> ELSE <<6>>)
    /\ UNCHANGED <<env_key, code, handle, live, nextHandle, acquireCalls,
                   backendCalls, logs, response>>

\* Runner.run returns the backend's reply; the report is taken from it.
Runner_run_return(r) ==
    /\ pc[r] = "invoking"
    /\ \E k \in ReplyIds :
        /\ reply' = [reply EXCEPT ![r] = k]
        /\ LeaveBlock(r, ValidateOutput(BackendReply(k)), <<6>>)
    /\ UNCHANGED <<env_key, code, handle, live, nextHandle, acquireCalls,
                   backendCalls, logs, response>>

\* The server connected by hand and disconnected only after Runner.run returns:
\* an exception from Runner.run skips the release.
Runner_run_raise_norelease(r) ==
    /\ pc[r] = "invoking"
    /\ pending' = [pending EXCEPT ![r] = Raising(BackendInvocationError)]
    /\ Except(r, BackendInvocationError)
    /\ UNCHANGED <<env_key, code, handle, live, nextHandle, acquireCalls,
                   backendCalls, releaseCalls, reply, steps>>

\* A failed backend call tried again, without limit.
Runner_run_raise_retry_forever(r) ==
    /\ pc[r] = "invoking"
    /\ pending' = [pending EXCEPT ![r] =
                      IF @.kind = "raise" THEN NoPending ELSE Raising(BackendInvocationError)]
    /\ UNCHANGED <<env_key, pc, code, handle, live, nextHandle, acquireCalls,
                   backendCalls, releaseCalls, reply, logs, response, steps>>

\* A failed backend call tried once more before giving up.
Runner_run_raise_retry_once(r) ==
    /\ pc[r] = "invoking"
    /\ IF backendCalls[r] < 2
       THEN /\ backendCalls' = [backendCalls EXCEPT ![r] = @ + 1]
            /\ steps' = [steps EXCEPT ![r] = @ \o <<5>>]
            /\ UNCHANGED <<pc, pending, releaseCalls>>
       ELSE /\ LeaveBlock(r, Raising(BackendInvocationError), <<>>)
            /\ UNCHANGED backendCalls
    /\ UNCHANGED <<env_key, code, handle, live, nextHandle, acquireCalls,
                   reply, logs, response>>

\* Runner.run raises (transport error, timeout, quota).
Runner_run_raise(r) ==
    /\ pc[r] = "invoking"
    /\ LeaveBlock(r, Raising(BackendInvocationError), <<>>)
    /\ UNCHANGED <<env_key, code, handle, live, nextHandle, acquireCalls,
                   backendCalls, reply, logs, response>>

\* The release written as `except Exception: cleanup`: a cancellation skips it.
Runner_run_cancel_norelease(r) ==
    /\ pc[r] = "invoking"
    /\ pending' = [pending EXCEPT ![r] = Cancelling("Runner.run")]
    /\ pc' = [pc EXCEPT ![r] = "cancelled"]
    /\ UNCHANGED <<env_key, code, handle, live, nextHandle, acquireCalls,
                   backendCalls, releaseCalls, reply, logs, response, steps>>

\* The task is cancelled while awaiting Runner.run.
Runner_run_cancel(r) ==
    /\ pc[r] = "invoking"
    /\ LeaveBlock(r, Cancelling("Runner.run"), <<>>)
    /\ UNCHANGED <<env_key, code, handle, live, nextHandle, acquireCalls,
                   backendCalls, reply, logs, response>>

\* The disconnect left to a background task: the outcome continues into
\* analyze_code while the server is still connected.
aexit_return_detached(r) ==
    /\ pc[r] = "releasing"
    /\ CASE pending[r].kind = "return" ->
              /\ response' = [response EXCEPT ![r] =
                     SuccessResponse(format_analysis_response(code[r], pending[r].report))]
              /\ steps' = [steps EXCEPT ![r] = @ \o <<7>>]
              /\ pc' = [pc EXCEPT ![r] = "done"]
              /\ UNCHANGED logs
         [] pending[r].kind = "raise" ->
              /\ Except(r, pending[r].exc)
              /\ UNCHANGED steps
         [] pending[r].kind = "cancel" ->
              /\ pc' = [pc EXCEPT ![r] = "cancelled"]
              /\ UNCHANGED <<logs, response, steps>>
    /\ UNCHANGED <<env_key, code, handle, live, nextHandle, acquireCalls, backendCalls,
                   releaseCalls, reply, pending>>

\* __aexit__ completes: the server is disconnected and the block's outcome
\* continues into analyze_code.
aexit_return(r) ==
    /\ pc[r] = "releasing"
    /\ live' = live \ {handle[r]}
    /\ CASE pending[r].kind = "return" ->
              /\ response' = [response EXCEPT ![r] =
                     SuccessResponse(format_analysis_response(code[r], pending[r].report))]
              /\ steps' = [steps EXCEPT ![r] = @ \o <<7>>]
              /\ pc' = [pc EXCEPT ![r] = "done"]
              /\ UNCHANGED logs
         [] pending[r].kind = "raise" ->
              /\ Except(r, pending[r].exc)
              /\ UNCHANGED steps
         [] pending[r].kind = "cancel" ->
              /\ pc' = [pc EXCEPT ![r] = "cancelled"]
              /\ UNCHANGED <<logs, response, steps>>
    /\ UNCHANGED <<env_key, code, handle, nextHandle, acquireCalls, backendCalls,
                   releaseCalls, reply, pending>>

\* The task is cancelled inside __aexit__: the release finishes its cleanup
\* and the cancellation replaces the block's outcome.
aexit_cancel(r) ==
    /\ pc[r] = "releasing"
    /\ pending[r].kind # "cancel"
    /\ live' = live \ {handle[r]}
    /\ pending' = [pending EXCEPT ![r] = Cancelling("aexit")]
    /\ pc' = [pc EXCEPT ![r] = "cancelled"]
    /\ UNCHANGED <<env_key, code, handle, nextHandle, acquireCalls, backendCalls,
                   releaseCalls, reply, logs, response, steps>>

Next ==
    \E r \in Requests :
        \/ analyze_code(r)
        \/ aenter_return(r)
        \/ aenter_raise(r)
        \/ aenter_cancel(r)
        \/ Runner_run_return(r)
        \/ Runner_run_raise(r)
        \/ Runner_run_cancel(r)
        \/ aexit_return(r)
        \/ aexit_cancel(r)

Spec == Init /\ [][Next]_vars

\* Every external call eventually returns or fails: the awaits in __aenter__,
\* Runner.run and __aexit__ are resumed by the event loop.
Fairness ==
    \A r \in Requests :
        /\ WF_vars(aenter_return(r) \/ aenter_raise(r))
        /\ WF_vars(Runner_run_return(r) \/ Runner_run_raise(r))
        /\ WF_vars(aexit_return(r))

FairSpec == Spec /\ Fairness

----
\* Vocabulary of the properties

Arrived(r) == pc[r] # "idle"
Finished(r) == pc[r] \in {"done", "cancelled"}
InFlight(r) == Arrived(r) /\ ~Finished(r)

WhitespaceOnly(c) == \A i \in 1..Len(c) : c[i] \in Whitespace

\* The exception the except clause caught for r, NoException if it did not run.
Failure(r) == IF logs[r] = <<>> THEN NoException ELSE logs[r][1].exc_info

InvalidInput == HTTPException(400, "No code provided for analysis")
ConfigurationError == HTTPException(500, "Gemini API key not configured")

MidPipelineKinds == {"ToolAcquisitionError", "BackendInvocationError", "OutputValidationError"}

----
\* C1 as stated: every finished request, whatever its path (success, each of
\* the five failure kinds, cancellation), has released the tool-server handle
\* exactly once.
C1_ReleasedOncePerRequest ==
    \A r \in Requests : Finished(r) => releaseCalls[r] = 1

\* C1 amended: the handle is never released more than once, and a finished
\* request has released it exactly once if it acquired one (success,
\* BackendInvocationError, OutputValidationError, cancellation from the backend
\* call on) and not at all if it acquired none (InvalidInput,
\* ConfigurationError, ToolAcquisitionError, cancellation during acquisition).
C1_ReleasedOncePerAcquiredHandle ==
    \A r \in Requests :
        /\ releaseCalls[r] <= 1
        /\ Finished(r) =>
            /\ releaseCalls[r] = (IF handle[r] # 0 THEN 1 ELSE 0)
            /\ handle[r] \notin live
            /\ response[r].status = 200 => releaseCalls[r] = 1
            /\ Failure(r).type \in {"BackendInvocationError", "OutputValidationError"}
                  => releaseCalls[r] = 1
            /\ Failure(r).type \in {"HTTPException", "ToolAcquisitionError"}
                  => releaseCalls[r] = 0
            /\ pending[r].kind = "cancel"
                  => releaseCalls[r] = (IF pending[r].at = "aenter" THEN 0 ELSE 1)

C1_Witness ==
    \E r1, r2 \in Requests :
        /\ pc[r1] = "done" /\ Failure(r1) = BackendInvocationError /\ releaseCalls[r1] = 1
        /\ pc[r2] = "done" /\ Failure(r2) = InvalidInput /\ releaseCalls[r2] = 0

\* C2: a request whose code is empty or whitespace only is rejected, and
\* neither tool acquisition nor backend invocation is ever attempted for it.
C2_BlankCodeRejectedWithoutCalls ==
    \A r \in Requests :
        (Arrived(r) /\ WhitespaceOnly(code[r])) =>
            /\ acquireCalls[r] = 0
            /\ backendCalls[r] = 0
            /\ handle[r] = 0
            /\ pc[r] = "done"
            /\ response[r].status \in {400, 500}
            /\ response[r].report = NoReport
            /\ Failure(r) \in {InvalidInput, ConfigurationError}

C2_Witness ==
    \E r \in Requests :
        /\ env_key
        /\ pc[r] = "done"
        /\ code[r] = <<"\t", "\n">>
        /\ Failure(r) = InvalidInput

\* C3: with credentials configured, empty or whitespace-only code is answered
\* 400; missing credentials and failed analyses are answered 500; a successful
\* analysis is answered 200.
C3_BlankCodeAnswered400 ==
    \A r \in Requests :
        pc[r] = "done" =>
            /\ (env_key /\ WhitespaceOnly(code[r])) => response[r].status = 400
            /\ (~env_key \/ Failure(r).type \in MidPipelineKinds) => response[r].status = 500
            /\ Failure(r) = NoException => response[r].status = 200

\* C4: without the backend credential every request ends in the configuration
\* failure, status 500, and no tool acquisition, backend invocation or release
\* is ever attempted.
C4_MissingKeyFailsBeforeAnyCall ==
    ~env_key =>
        \A r \in Requests :
            /\ acquireCalls[r] = 0
            /\ backendCalls[r] = 0
            /\ releaseCalls[r] = 0
            /\ live = {}
            /\ Arrived(r) =>
                /\ pc[r] = "done"
                /\ response[r].status = 500
                /\ Failure(r) = ConfigurationError
                /\ steps[r] = <<1>>

C4_Witness ==
    \E r \in Requests :
        /\ ~env_key
        /\ pc[r] = "done"
        /\ ~WhitespaceOnly(code[r])
        /\ response[r].status = 500

\* C5 as stated: the steps a request executes occur in the order 1 (verify
\* credentials), 2 (validate request), 3 (acquire), 4 (build agent), 5 (invoke),
\* 6 (validate output), 7 (enrich summary), 8 (release).
C5_StepsInStatedOrder ==
    \A r \in Requests :
        \A i, j \in 1..Len(steps[r]) : i < j => steps[r][i] < steps[r][j]

\* The order in which analyze_code runs the steps.
StepOrder == <<1, 2, 3, 4, 5, 6, 8, 7>>
StepPosition(s) == CHOOSE i \in 1..Len(StepOrder) : StepOrder[i] = s

\* C5 amended: the steps a request executes occur in the order 1, 2, 3, 4, 5,
\* 6, 8, 7: the tool handle is released (8) before the summary is enriched (7);
\* a successful request runs all eight.
C5_StepsInCodeOrder ==
    \A r \in Requests :
        /\ \A i, j \in 1..Len(steps[r]) :
              i < j => StepPosition(steps[r][i]) < StepPosition(steps[r][j])
        /\ response[r].status = 200 => steps[r] = StepOrder

C5_Witness ==
    \E r \in Requests : pc[r] = "done" /\ steps[r] = <<1, 2, 3, 4, 5, 6, 8, 7>>

\* Some issue of the raw reply has a score outside [0.0, 10.0] or a severity
\* outside the four levels.
OutOfRange(raw) ==
    \E n \in 1..Len(raw.issues) :
        \/ raw.issues[n].cvss_score \notin 0..100
        \/ raw.issues[n].severity \notin {"critical", "high", "medium", "low"}

\* C6: every issue of a successful response has a score in [0.0, 10.0] and a
\* severity among critical, high, medium, low; a reply outside these is
\* rejected as OutputValidationError.
C6_ScoreAndSeverityEnforced ==
    \A r \in Requests :
        /\ response[r].status = 200 =>
              \A n \in 1..Len(response[r].report.issues) :
                  /\ response[r].report.issues[n].cvss_score \in 0..100
                  /\ response[r].report.issues[n].severity
                        \in {"critical", "high", "medium", "low"}
        /\ (pc[r] = "done" /\ reply[r] # "" /\ OutOfRange(BackendReply(reply[r])))
              => Failure(r) = OutputValidationError

\* C7: a request cancelled while it awaits the backend still has its handle
\* released: __aexit__ is called at once, and when the request is gone its
\* handle is no longer live.
C7_CancelledInvocationReleases ==
    \A r \in Requests :
        (pending[r].kind = "cancel" /\ pending[r].at = "Runner.run") =>
            /\ handle[r] # 0
            /\ releaseCalls[r] = 1
            /\ pc[r] \in {"releasing", "cancelled"}
            /\ pc[r] = "cancelled" => handle[r] \notin live

C7_Witness ==
    \E r \in Requests :
        /\ pc[r] = "cancelled"
        /\ pending[r].at = "Runner.run"
        /\ releaseCalls[r] = 1
        /\ handle[r] # 0 /\ handle[r] \notin live

\* C8: a failure of tool acquisition, backend invocation or output validation
\* always reaches the client as status 500 with detail "Analysis failed: "
\* followed by the error's text; no failure ends with another representation.
C8_UniformFailure ==
    \A r \in Requests :
        pc[r] = "done" =>
            /\ Failure(r).type \in MidPipelineKinds =>
                  response[r] = [status |-> 500,
                                 detail |-> <<"Analysis failed: ", Failure(r).msg>>,
                                 report |-> NoReport]
            /\ pending[r].kind = "raise" => Failure(r) = pending[r].exc
            /\ (acquireCalls[r] = 1 /\ handle[r] = 0) => Failure(r) = ToolAcquisitionError
            /\ response[r].status \in {200, 500}

C8_Witness ==
    \E r1, r2 \in Requests :
        /\ pc[r1] = "done" /\ Failure(r1) = ToolAcquisitionError /\ response[r1].status = 500
        /\ pc[r2] = "done" /\ Failure(r2) = OutputValidationError /\ response[r2].status = 500

\* C9: a request ends either with a report whose issues all carry title,
\* description, code, fix, cvss_score and severity, or with an error and no
\* report; a reply missing `fix` ends as OutputValidationError.
C9_NoPartialReport ==
    \A r \in Requests :
        pc[r] = "done" =>
            /\ \/ /\ response[r].status = 200
                  /\ Failure(r) = NoException
                  /\ \A n \in 1..Len(response[r].report.issues) :
                        DOMAIN response[r].report.issues[n] = IssueFields
               \/ /\ response[r].status >= 400
                  /\ Failure(r) # NoException
                  /\ response[r].report = NoReport
            /\ reply[r] = "no_fix" =>
                  /\ Failure(r) = OutputValidationError
                  /\ response[r].status = 500

C9_Witness ==
    \E r1, r2 \in Requests :
        /\ pc[r1] = "done" /\ reply[r1] = "no_fix" /\ Failure(r1) = OutputValidationError
        /\ pc[r2] = "done" /\ reply[r2] = "two_issues" /\ response[r2].status = 200

\* C10 as stated: every request in flight has exactly one live handle of its
\* own, and no handle belongs to two requests.
C10_OneLiveHandlePerInFlightRequest ==
    /\ \A r \in Requests :
          InFlight(r) => Cardinality({h \in live : h = handle[r]}) = 1
    /\ \A r1, r2 \in Requests :
          (r1 # r2 /\ handle[r1] # 0) => handle[r1] # handle[r2]

\* C10 amended: a request in flight has one live handle of its own from the
\* return of the acquisition until the release completes and none while it is
\* still acquiring; every live handle belongs to one such request, and no
\* handle is ever given to two requests.
C10_OneLiveHandleWhileHeld ==
    /\ \A r \in Requests :
          /\ pc[r] \in {"invoking", "releasing"} => (handle[r] # 0 /\ handle[r] \in live)
          /\ pc[r] \notin {"invoking", "releasing"} => handle[r] \notin live
          /\ pc[r] \in {"idle", "acquiring"} => handle[r] = 0
    /\ \A h \in live : \E r \in Requests : handle[r] = h
    /\ Cardinality(live) = Cardinality({r \in Requests : pc[r] \in {"invoking", "releasing"}})
    /\ \A r1, r2 \in Requests :
          (r1 # r2 /\ handle[r1] # 0) => handle[r1] # handle[r2]

C10_Witness ==
    \E r1, r2 \in Requests :
        /\ r1 # r2
        /\ pc[r1] = "invoking" /\ pc[r2] = "releasing"
        /\ handle[r1] # handle[r2]
        /\ {handle[r1], handle[r2]} \subseteq live

C12_ReleasedBeforeResponse ==
    \A r \in Requests :
        response[r].status # 0 =>
            /\ handle[r] \notin live
            /\ handle[r] # 0 => releaseCalls[r] = 1

C12_Witness ==
    \E r, q \in Requests :
        /\ response[r].status = 200 /\ handle[r] # 0 /\ handle[r] \notin live
        /\ response[q].status = 500 /\ handle[q] # 0 /\ handle[q] \notin live

\* C13: when tool acquisition fails, the caller gets an error, the backend is
\* never invoked for that request, and no handle exists for it: none acquired,
\* none live, none released.
C13_AcquisitionFailurePropagates ==
    \A r \in Requests :
        (acquireCalls[r] = 1 /\ pc[r] # "acquiring" /\ handle[r] = 0
                /\ pending[r].kind # "cancel") =>
            /\ pc[r] = "done"
            /\ Failure(r) = ToolAcquisitionError
            /\ response[r].status = 500
            /\ response[r].report = NoReport
            /\ backendCalls[r] = 0
            /\ releaseCalls[r] = 0
            /\ steps[r] = <<1, 2, 3>>

C13_Witness ==
    \E r, q \in Requests :
        /\ r # q
        /\ pc[r] = "done" /\ Failure(r) = ToolAcquisitionError /\ backendCalls[r] = 0
        /\ pc[q] = "invoking" /\ live = {handle[q]}

\* C14: no retry: within one request the tool server is acquired at most once
\* and the backend invoked at most once, and a request that failed in the
\* backend call or in output validation made exactly one of each.
C14_NoRetry ==
    \A r \in Requests :
        /\ acquireCalls[r] <= 1
        /\ backendCalls[r] <= 1
        /\ Len(SelectSeq(steps[r], LAMBDA s : s = 5)) <= 1
        /\ (pending[r].kind = "raise" \/ Failure(r).type \in
                {"BackendInvocationError", "OutputValidationError"}) =>
              (acquireCalls[r] = 1 /\ backendCalls[r] = 1)

C14_Witness ==
    \E r, q \in Requests :
        /\ pc[r] = "done" /\ Failure(r) = BackendInvocationError /\ backendCalls[r] = 1
        /\ pc[q] = "done" /\ Failure(q) = OutputValidationError /\ backendCalls[q] = 1

\* C15: a request with both a missing backend credential and empty or
\* whitespace-only code fails with the configuration error, not InvalidInput.
C15_ConfigurationErrorFirst ==
    \A r \in Requests :
        (~env_key /\ Arrived(r) /\ WhitespaceOnly(code[r])) =>
            /\ Failure(r) = ConfigurationError
            /\ response[r].status = 500
            /\ response[r].detail =
                  <<"Analysis failed: ", "500", ": ", "Gemini API key not configured">>
            /\ steps[r] = <<1>>

C15_Witness ==
    \E r \in Requests :
        /\ ~env_key
        /\ code[r] = <<" ">>
        /\ pc[r] = "done"
        /\ Failure(r) = ConfigurationError

\* The exception a request with an error response ran into, from its inputs
\* and its path.
ExpectedCause(r) ==
    IF ~env_key THEN ConfigurationError
    ELSE IF WhitespaceOnly(code[r]) THEN InvalidInput
    ELSE IF handle[r] = 0 THEN ToolAcquisitionError
    ELSE pending[r].exc

\* C16: whenever an error response has been delivered, for the early
\* InvalidInput and ConfigurationError rejections too, exactly one failure
\* record carrying the exception itself has been logged; a success logs none.
C16_FailureLogged ==
    \A r \in Requests :
        /\ response[r].status \notin {0, 200} =>
              /\ Len(logs[r]) = 1
              /\ logs[r][1].msg = "Analysis failed"
              /\ logs[r][1].exc_info = ExpectedCause(r)
              /\ logs[r][1].exc_info # NoException
        /\ response[r].status = 200 => logs[r] = <<>>

C16_Witness ==
    \E r, q \in Requests :
        /\ response[r].status = 500 /\ Failure(r) = InvalidInput
        /\ response[q].status = 500 /\ Failure(q) = OutputValidationError

\* Position of the first occurrence of step s in a request's steps, 0 if absent.
StepAt(r, s) ==
    IF \E i \in 1..Len(steps[r]) : steps[r][i] = s
    THEN CHOOSE i \in 1..Len(steps[r]) :
            steps[r][i] = s /\ \A j \in 1..(i - 1) : steps[r][j] # s
    ELSE 0

\* C17: the backend is invoked only while the invoking request's own handle is
\* live: a request awaiting the backend holds a live handle whose release has
\* not begun, and its invocation lies after its acquisition and before its
\* release.
C17_InvokedOnlyWhileHandleLive ==
    \A r \in Requests :
        /\ pc[r] = "invoking" =>
              /\ handle[r] # 0
              /\ handle[r] \in live
              /\ releaseCalls[r] = 0
              /\ \A q \in Requests : q # r => handle[q] # handle[r]
        /\ backendCalls[r] > 0 =>
              /\ handle[r] # 0
              /\ 0 < StepAt(r, 3) /\ StepAt(r, 3) < StepAt(r, 5)
        /\ releaseCalls[r] > 0 =>
              /\ 0 < StepAt(r, 5) /\ StepAt(r, 5) < StepAt(r, 8)
              /\ pc[r] # "invoking"

C17_Witness ==
    \E r, q \in Requests :
        /\ r # q
        /\ pc[r] = "invoking" /\ handle[r] \in live
        /\ pc[q] = "done" /\ handle[q] # 0 /\ handle[q] \notin live

\* C18: given that every external call eventually returns or fails, every
\* request in flight eventually ends, delivered or cancelled: a request that
\* has arrived stays arrived, one that has ended stays ended, and from some
\* point on no request is in flight.  One that ends without being cancelled
\* has a response, 200 or 500, and a delivered response is never replaced.
C18_EveryRequestEnds ==
    /\ <>[](\A r \in Requests : ~InFlight(r))
    /\ [][\A r \in Requests : /\ Arrived(r) => Arrived(r)'
                              /\ Finished(r) => Finished(r)']_vars
    /\ [](\A r \in Requests : pc[r] = "done" => response[r].status \in {200, 500})
    /\ [][\A r \in Requests : response[r].status # 0 => response'[r] = response[r]]_vars

C18_Witness ==
    \E r, q \in Requests :
        /\ pc[r] = "done" /\ response[r].status = 200
        /\ pc[q] = "done" /\ response[q].status = 500 /\ backendCalls[q] = 1

====
